---------------------------- MODULE Spec2Model ----------------------------
(***************************************************************************)
(* Model of the SUNAT file finder and packager:                            *)
(*   src/src/core/file_finder.py     (_analyze_filename, find_files, ...)  *)
(*   src/src/core/file_processor.py  (_parse_zip_path, _extract_from_zip,  *)
(*                                    create_zip_package)                  *)
(*   src/src/api/main.py             (find_endpoint, process_endpoint)     *)
(* A Python str is a sequence of one-character strings.                    *)
(***************************************************************************)
EXTENDS Integers, Sequences, FiniteSets, TLC

\* --------------------------------------------------------------- bounds
\* Files and archive entries the environment creates before a discovery run.
MaxNodes == 4
\* The same, before a whole process request (discovery, packaging, deletion).
MaxPackNodes == 3
\* The same, before a process request that may write into search_path.
MaxOutNodes == 2
\* Longest address handed to _parse_zip_path in the parser-only specification.
MaxAddrLen == 5
\* Faults the environment injects in one request (a file changed after
\* discovery, a failing write).
MaxFaults == 1

\* -------------------------------------------------------------- strings
UpperLetters ==
  <<"A","B","C","D","E","F","G","H","I","J","K","L","M",
    "N","O","P","Q","R","S","T","U","V","W","X","Y","Z">>
LowerLetters ==
  <<"a","b","c","d","e","f","g","h","i","j","k","l","m",
    "n","o","p","q","r","s","t","u","v","w","x","y","z">>
Digits == {"0","1","2","3","4","5","6","7","8","9"}

\* str.lower() on one character.
LowerChar(c) ==
  IF \E i \in 1..26 : UpperLetters[i] = c
    THEN LowerLetters[CHOOSE i \in 1..26 : UpperLetters[i] = c]
    ELSE c

\* str.lower()
Lower(s) == [i \in 1..Len(s) |-> LowerChar(s[i])]

IsDigit(c) == c \in Digits
IsAlpha(c) == \E i \in 1..26 : LowerLetters[i] = LowerChar(c)

Take(s, k) == SubSeq(s, 1, k)
Drop(s, k) == SubSeq(s, k + 1, Len(s))

\* str.startswith / str.endswith
StartsWith(s, p) == Len(p) <= Len(s) /\ Take(s, Len(p)) = p
EndsWith(s, p) == Len(p) <= Len(s) /\ Drop(s, Len(s) - Len(p)) = p

\* str.replace(a, b) for single characters.
Replace(s, a, b) == [i \in 1..Len(s) |-> IF s[i] = a THEN b ELSE s[i]]

\* str.split(c): always at least one part.
RECURSIVE Split(_, _)
Split(s, c) ==
  IF \A i \in 1..Len(s) : s[i] # c
    THEN <<s>>
    ELSE LET k == CHOOSE i \in 1..Len(s) :
                    s[i] = c /\ \A j \in 1..(i - 1) : s[j] # c
         IN  <<Take(s, k - 1)>> \o Split(Drop(s, k), c)

\* c.join(parts)
RECURSIVE Join(_, _)
Join(parts, c) ==
  IF parts = <<>> THEN <<>>
  ELSE IF Len(parts) = 1 THEN parts[1]
  ELSE parts[1] \o <<c>> \o Join(Tail(parts), c)

\* str.lstrip(c)
RECURSIVE LStrip(_, _)
LStrip(s, c) == IF s # <<>> /\ s[1] = c THEN LStrip(Tail(s), c) ELSE s

\* ------------------------------------------------------ pattern registry
\* A compiled pattern is a sequence of tokens, anchored at both ends and
\* matched with re.IGNORECASE.  cls: "d" = \d, "w" = [A-Z0-9], "a" = [A-Z];
\* hi = -1 is "+" (no upper limit); cap marks a capturing group.
Lit(s) == [t |-> "lit", s |-> s, cls |-> "", lo |-> 0, hi |-> 0,
           cap |-> FALSE, opts |-> <<>>, toks |-> <<>>]
Rep(cls, lo, hi, cap) == [t |-> "rep", s |-> <<>>, cls |-> cls, lo |-> lo,
           hi |-> hi, cap |-> cap, opts |-> <<>>, toks |-> <<>>]
Alt(opts) == [t |-> "alt", s |-> <<>>, cls |-> "", lo |-> 0, hi |-> 0,
           cap |-> TRUE, opts |-> opts, toks |-> <<>>]
Opt(toks) == [t |-> "opt", s |-> <<>>, cls |-> "", lo |-> 0, hi |-> 0,
           cap |-> FALSE, opts |-> <<>>, toks |-> toks]

PATRONES_ESTRUCTURADOS ==
  <<
     [doc_type |-> "guia_remision",
      pattern |-> <<Rep("d", 11, 11, TRUE),
                   Lit(<<"-","0","9","-">>),
                   Rep("w", 4, 4, TRUE),
                   Lit(<<"-">>),
                   Rep("d", 1, 8, TRUE),
                   Lit(<<".">>),
                   Alt(<<<<"p","d","f">>, <<"x","m","l">>>>)>>,
      fields |-> <<"ruc", "serie", "correlativo", "ext">>],
     [doc_type |-> "reporte_planilla_zip",
      pattern |-> <<Rep("d", 11, 11, TRUE),
                   Lit(<<"_">>),
                   Rep("a", 1, -1, FALSE),
                   Lit(<<"_">>),
                   Rep("d", 8, 8, TRUE),
                   Lit(<<".">>),
                   Alt(<<<<"z","i","p">>>>)>>,
      fields |-> <<"ruc", "periodo", "ext">>],
     [doc_type |-> "declaraciones_pagos",
      pattern |-> <<Lit(<<"D","e","t","a","l","l","e","D","e","c","l","a","r","a","c","i","o","n","e","s","_">>),
                   Rep("d", 11, 11, TRUE),
                   Lit(<<"_">>),
                   Rep("d", 14, 14, TRUE),
                   Lit(<<".">>),
                   Alt(<<<<"x","l","s","x">>>>)>>,
      fields |-> <<"ruc", "timestamp", "ext">>],
     [doc_type |-> "ficha_ruc",
      pattern |-> <<Lit(<<"r","e","p","o","r","t","e","e","c","_","f","i","c","h","a","r","u","c","_">>),
                   Rep("d", 11, 11, TRUE),
                   Lit(<<"_">>),
                   Rep("d", 14, 14, TRUE),
                   Lit(<<".">>),
                   Alt(<<<<"p","d","f">>>>)>>,
      fields |-> <<"ruc", "timestamp", "ext">>],
     [doc_type |-> "ingreso_recaudacion",
      pattern |-> <<Lit(<<"r","i","d","e","t","r","a","c","_">>),
                   Rep("d", 11, 11, TRUE),
                   Lit(<<"_">>),
                   Rep("d", 13, 13, TRUE),
                   Lit(<<"_">>),
                   Rep("d", 14, 14, TRUE),
                   Lit(<<"_">>),
                   Rep("d", 9, 9, TRUE),
                   Lit(<<".">>),
                   Alt(<<<<"p","d","f">>>>)>>,
      fields |-> <<"ruc", "num_operacion", "timestamp", "id", "ext">>],
     [doc_type |-> "liberacion_fondos",
      pattern |-> <<Lit(<<"r","i","l","f","_">>),
                   Rep("d", 11, 11, TRUE),
                   Lit(<<"_">>),
                   Rep("d", 13, 13, TRUE),
                   Lit(<<"_">>),
                   Rep("d", 14, 14, TRUE),
                   Lit(<<"_">>),
                   Rep("d", 9, 9, TRUE),
                   Lit(<<".">>),
                   Alt(<<<<"p","d","f">>>>)>>,
      fields |-> <<"ruc", "num_operacion", "timestamp", "id", "ext">>],
     [doc_type |-> "multa",
      pattern |-> <<Lit(<<"r","m","g","e","n","_">>),
                   Rep("d", 11, 11, TRUE),
                   Lit(<<"_">>),
                   Rep("d", 3, 3, TRUE),
                   Lit(<<"-">>),
                   Rep("d", 3, 3, TRUE),
                   Lit(<<"-">>),
                   Rep("d", 7, 7, TRUE),
                   Lit(<<"_">>),
                   Rep("d", 14, 14, TRUE),
                   Lit(<<"_">>),
                   Rep("d", 9, 9, TRUE),
                   Lit(<<".">>),
                   Alt(<<<<"p","d","f">>>>)>>,
      fields |-> <<"ruc", "cod1", "cod2", "num_multa", "timestamp", "id", "ext">>],
     [doc_type |-> "notificacion",
      pattern |-> <<Lit(<<"c","o","n","s","t","a","n","c","i","a","_">>),
                   Rep("d", 14, 14, TRUE),
                   Lit(<<"_">>),
                   Rep("d", 20, 20, TRUE),
                   Lit(<<"_">>),
                   Rep("d", 13, 13, TRUE),
                   Lit(<<"_">>),
                   Rep("d", 9, 9, TRUE),
                   Lit(<<".">>),
                   Alt(<<<<"p","d","f">>>>)>>,
      fields |-> <<"timestamp", "id_notif", "num_operacion", "id", "ext">>],
     [doc_type |-> "valores",
      pattern |-> <<Lit(<<"r","v","a","l","o","r","e","s","_">>),
                   Rep("d", 11, 11, TRUE),
                   Lit(<<"_">>),
                   Rep("w", 12, 17, TRUE),
                   Lit(<<"_">>),
                   Rep("d", 14, 14, TRUE),
                   Lit(<<"_">>),
                   Rep("d", 9, 9, TRUE),
                   Lit(<<".">>),
                   Alt(<<<<"p","d","f">>>>)>>,
      fields |-> <<"ruc", "num_valor", "timestamp", "id", "ext">>],
     [doc_type |-> "coactiva",
      pattern |-> <<Lit(<<"r","e","c","g","e","n","_">>),
                   Rep("d", 11, 11, TRUE),
                   Lit(<<"_">>),
                   Rep("d", 13, 13, TRUE),
                   Lit(<<"_">>),
                   Rep("d", 14, 14, TRUE),
                   Lit(<<"_">>),
                   Rep("d", 9, 9, TRUE),
                   Lit(<<".">>),
                   Alt(<<<<"p","d","f">>>>)>>,
      fields |-> <<"ruc", "num_expediente", "timestamp", "id", "ext">>],
     [doc_type |-> "baja_oficio",
      pattern |-> <<Lit(<<"b","o","d","_">>),
                   Rep("d", 6, 6, TRUE),
                   Lit(<<"_">>),
                   Rep("d", 11, 11, TRUE),
                   Lit(<<"_">>),
                   Rep("d", 4, 4, TRUE),
                   Lit(<<".">>),
                   Alt(<<<<"p","d","f">>>>)>>,
      fields |-> <<"id_baja", "ruc", "periodo", "ext">>],
     [doc_type |-> "factura",
      pattern |-> <<Opt(<<Rep("d", 11, 11, FALSE), Lit(<<"-">>)>>),
                   Alt(<<<<"0","1">>>>),
                   Lit(<<"-">>),
                   Rep("w", 4, 4, TRUE),
                   Lit(<<"-">>),
                   Rep("d", 1, 8, TRUE),
                   Lit(<<".">>),
                   Alt(<<<<"x","m","l">>, <<"z","i","p">>, <<"p","d","f">>>>)>>,
      fields |-> <<"tipo_doc", "serie", "correlativo", "ext">>],
     [doc_type |-> "boleta",
      pattern |-> <<Opt(<<Rep("d", 11, 11, FALSE), Lit(<<"-">>)>>),
                   Alt(<<<<"0","3">>>>),
                   Lit(<<"-">>),
                   Rep("w", 4, 4, TRUE),
                   Lit(<<"-">>),
                   Rep("d", 1, 8, TRUE),
                   Lit(<<".">>),
                   Alt(<<<<"x","m","l">>, <<"z","i","p">>, <<"p","d","f">>>>)>>,
      fields |-> <<"tipo_doc", "serie", "correlativo", "ext">>],
     [doc_type |-> "nota_credito",
      pattern |-> <<Opt(<<Rep("d", 11, 11, FALSE), Lit(<<"-">>)>>),
                   Alt(<<<<"0","7">>>>),
                   Lit(<<"-">>),
                   Rep("w", 4, 4, TRUE),
                   Lit(<<"-">>),
                   Rep("d", 1, 8, TRUE),
                   Lit(<<".">>),
                   Alt(<<<<"x","m","l">>, <<"z","i","p">>, <<"p","d","f">>>>)>>,
      fields |-> <<"tipo_doc", "serie", "correlativo", "ext">>],
     [doc_type |-> "nota_debito",
      pattern |-> <<Opt(<<Rep("d", 11, 11, FALSE), Lit(<<"-">>)>>),
                   Alt(<<<<"0","8">>>>),
                   Lit(<<"-">>),
                   Rep("w", 4, 4, TRUE),
                   Lit(<<"-">>),
                   Rep("d", 1, 8, TRUE),
                   Lit(<<".">>),
                   Alt(<<<<"x","m","l">>, <<"z","i","p">>, <<"p","d","f">>>>)>>,
      fields |-> <<"tipo_doc", "serie", "correlativo", "ext">>],
     [doc_type |-> "recibo_honorarios",
      pattern |-> <<Opt(<<Rep("d", 11, 11, FALSE), Lit(<<"-">>)>>),
                   Alt(<<<<"R","H","E">>>>),
                   Lit(<<"-">>),
                   Rep("w", 4, 4, TRUE),
                   Lit(<<"-">>),
                   Rep("d", 1, 8, TRUE),
                   Lit(<<".">>),
                   Alt(<<<<"x","m","l">>, <<"p","d","f">>>>)>>,
      fields |-> <<"tipo_doc", "serie", "correlativo", "ext">>]
  >>

InClass(cls, c) ==
  CASE cls = "d" -> IsDigit(c)
    [] cls = "a" -> IsAlpha(c)
    [] OTHER     -> IsDigit(c) \/ IsAlpha(c)

\* Length of the longest prefix of s made of characters of cls.
RECURSIVE Run(_, _)
Run(cls, s) ==
  IF s # <<>> /\ InClass(cls, s[1]) THEN 1 + Run(cls, Tail(s)) ELSE 0

Min(a, b) == IF a <= b THEN a ELSE b

\* The ways toks match the whole of s, as capture lists in the order the
\* backtracking matcher tries them (greedy first).
RECURSIVE Matches(_, _, _)
RECURSIVE RepMatches(_, _, _, _, _)
RECURSIVE AltMatches(_, _, _, _, _)
Matches(toks, s, caps) ==
  IF toks = <<>>
    THEN \* "$" matches at the end, and before a newline that ends the string
         (IF s = <<>> \/ s = <<"\n">> THEN <<caps>> ELSE <<>>)
  ELSE LET t == Head(toks)
           rest == Tail(toks)
       IN CASE t.t = "lit" ->
                 IF Len(t.s) <= Len(s) /\ Lower(Take(s, Len(t.s))) = Lower(t.s)
                   THEN Matches(rest, Drop(s, Len(t.s)), caps)
                   ELSE <<>>
            [] t.t = "rep" ->
                 LET most == IF t.hi < 0 THEN Run(t.cls, s)
                                         ELSE Min(t.hi, Run(t.cls, s))
                 IN  RepMatches(t, rest, s, caps, most)
            [] t.t = "alt" -> AltMatches(t, rest, s, caps, 1)
            [] OTHER -> Matches(t.toks \o rest, s, caps) \o Matches(rest, s, caps)
RepMatches(t, rest, s, caps, k) ==
  IF k < t.lo THEN <<>>
  ELSE Matches(rest, Drop(s, k), IF t.cap THEN Append(caps, Take(s, k)) ELSE caps)
         \o RepMatches(t, rest, s, caps, k - 1)
AltMatches(t, rest, s, caps, i) ==
  IF i > Len(t.opts) THEN <<>>
  ELSE LET o == t.opts[i]
       IN (IF Len(o) <= Len(s) /\ Lower(Take(s, Len(o))) = Lower(o)
             THEN Matches(rest, Drop(s, Len(o)), Append(caps, Take(s, Len(o))))
             ELSE <<>>)
          \o AltMatches(t, rest, s, caps, i + 1)

None == [classification |-> "None"]

\* The groups paired with the field names from the wrong end.
RECURSIVE AnalyzeFromReversed(_, _, _)
AnalyzeFromReversed(k, filename, path) ==
  IF k > Len(PATRONES_ESTRUCTURADOS) THEN None
  ELSE LET e == PATRONES_ESTRUCTURADOS[k]
           m == Matches(e.pattern, filename, <<>>)
       IN IF m # <<>>
            THEN [classification |-> e.doc_type,
                  filename |-> filename,
                  path |-> path,
                  fields |-> [i \in 1..Len(e.fields) |->
                                <<e.fields[i], m[1][Len(e.fields) + 1 - i]>>],
                  status |-> ""]
            ELSE AnalyzeFromReversed(k + 1, filename, path)

\* _analyze_filename: the first registry entry whose pattern matches.
RECURSIVE AnalyzeFrom(_, _, _)
AnalyzeFrom(k, filename, path) ==
  IF k > Len(PATRONES_ESTRUCTURADOS) THEN None
  ELSE LET e == PATRONES_ESTRUCTURADOS[k]
           m == Matches(e.pattern, filename, <<>>)
       IN IF m # <<>>
            THEN [classification |-> e.doc_type,
                  filename |-> filename,
                  path |-> path,
                  fields |-> [i \in 1..Len(e.fields) |-> <<e.fields[i], m[1][i]>>],
                  status |-> ""]
            ELSE AnalyzeFrom(k + 1, filename, path)

\* The names the environment gives to files and entries, and what the
\* registry makes of each, computed once.
NameF1 == <<"0","1","-","F","0","0","1","-","1",".","x","m","l">>
NameMZ == <<"0","1","-","F","0","0","1","-","1",".","z","i","p">>
NameUZ == <<"a",".","z","i","p">>
NameN == <<"n",".","t","x","t">>

\* api/main.py:105: datetime.now().strftime("%Y%m%d_%H%M%S"), the clock read
\* at two different seconds.
EarlierStamp == <<"2","0","2","6","0","1","0","1","_","0","0","0","0","0","0">>
LaterStamp == <<"2","0","2","6","0","1","0","1","_","0","0","0","0","0","1">>
Timestamps == {EarlierStamp, LaterStamp}

\* api/main.py:106: f"consolidado_{timestamp}.zip"
ZipFilename(timestamp) ==
  <<"c","o","n","s","o","l","i","d","a","d","o","_">> \o timestamp \o <<".","z","i","p">>

\* api/main.py:108: f"process_{timestamp}.txt"
LogFilename(timestamp) ==
  <<"p","r","o","c","e","s","s","_">> \o timestamp \o <<".","t","x","t">>

\* The name of an archive that an earlier request has written.
NameOut == ZipFilename(EarlierStamp)

KnownNames == {NameF1, NameMZ, NameUZ, NameN} \cup
              {ZipFilename(t) : t \in Timestamps}
AnalyzedNames == [n \in KnownNames |-> AnalyzeFrom(1, n, <<>>)]

\* file_finder.py:27-42
_analyze_filename(filename, path) ==
  IF filename \in KnownNames
    THEN IF AnalyzedNames[filename] = None THEN None
         ELSE [AnalyzedNames[filename] EXCEPT !.path = path]
    ELSE AnalyzeFrom(1, filename, path)

\* ------------------------------------------------------------- state
VARIABLES
  os_sep,                  \* os.sep of the platform: "/" or "\\"
  root_kind,               \* what search_path names: "dir", "file", "missing"
  disk,                    \* files under search_path, in os.walk order
  made,                    \* files and entries created so far
  faults,                  \* environment faults injected so far
  phase,                   \* position of the request
  stack,                   \* find_files: one frame per open archive
  found_files,
  seen_filenames,
  warnings,                \* paths printed as invalid zip
  visited,                 \* history: every entry the walker classified
  origin,                  \* history: where each record was read from
  run,                     \* history: 1 in the first discovery run, then 2
  first_found,             \* history: what the first discovery run returned
  delete_originals,
  files_to_package,
  physical_files_to_delete,
  output_zip_path,
  log_filepath,
  response,
  zip_state,               \* output archive: "none", "open", "closed"
  final_zip,               \* entries written to the output archive
  idx,                     \* create_zip_package: next record
  outcomes,                \* history: outcome of each record processed
  pending,                 \* deletion targets not yet attempted
  deleted,                 \* history: paths os.remove removed
  tampered,                \* history: disk paths changed after discovery
  write_raised,            \* history: creating or writing the archive raised
  log_lines,
  log_file,
  pp_in,                   \* parser-only specification: the address
  pp_out,                  \* parser-only specification: the result
  an_name,                 \* classifier-only specification: the filename
  an_out                   \* classifier-only specification: the result

vars == <<os_sep, root_kind, disk, made, faults, phase, stack, found_files,
          seen_filenames, warnings, visited, origin, run, first_found,
          delete_originals,
          files_to_package, physical_files_to_delete, output_zip_path,
          log_filepath, response, zip_state,
          final_zip, idx, outcomes, pending, deleted, tampered,
          write_raised, log_lines, log_file, pp_in, pp_out,
          an_name, an_out>>

findVars == <<stack, found_files, seen_filenames, warnings, visited, origin,
              run, first_found>>
apiVars == <<delete_originals, files_to_package, physical_files_to_delete,
             output_zip_path, log_filepath, response>>
pkgVars == <<zip_state, final_zip, idx, outcomes, pending, deleted,
             write_raised, log_lines, log_file>>
ppVars == <<pp_in, pp_out, an_name, an_out>>

\* ------------------------------------------------------ the file system
\* A node is a file on disk or an entry of an archive:
\*   name  file name on disk, or the entry's name inside its archive
\*   dir   directory of a disk file (<<>> for an entry)
\*   kind  "file", "zip" (readable archive), "bad" (BadZipFile on open),
\*         "locked" (open raises PermissionError), "dir" (directory entry)
\*   id    stands for the bytes: every node holds different bytes
\*   kids  entries of an archive, in infolist() order
RootDir == IF os_sep = "/" THEN <<"/","r">> ELSE <<"C",":","\\","r">>
SubDir == RootDir \o <<os_sep, "s">>
\* A directory outside search_path.
OutDir == IF os_sep = "/" THEN <<"/","o">> ELSE <<"C",":","\\","o">>
\* The working directory's log directory (api/main.py:101).
LogDir == <<"l","o","g","s">>

DiskLabels ==
  { [name |-> NameF1, dir |-> RootDir, kind |-> "file"],
    [name |-> NameF1, dir |-> SubDir, kind |-> "file"],
    [name |-> NameN, dir |-> RootDir, kind |-> "file"],
    [name |-> NameUZ, dir |-> RootDir, kind |-> "zip"],
    [name |-> NameUZ, dir |-> RootDir, kind |-> "bad"],
    [name |-> NameUZ, dir |-> RootDir, kind |-> "locked"],
    [name |-> NameMZ, dir |-> RootDir, kind |-> "zip"] }

\* The same, and the archive that an earlier request has written into
\* search_path.
DiskLabelsWithOutput ==
  DiskLabels \cup {[name |-> NameOut, dir |-> RootDir, kind |-> "zip"]}

EntryLabels ==
  { [name |-> <<"d","/">> \o NameF1, dir |-> <<>>, kind |-> "file"],
    [name |-> <<"c",":","d","/">> \o NameF1, dir |-> <<>>, kind |-> "file"],
    [name |-> NameN, dir |-> <<>>, kind |-> "file"],
    [name |-> NameUZ, dir |-> <<>>, kind |-> "zip"],
    [name |-> NameUZ, dir |-> <<>>, kind |-> "bad"],
    [name |-> NameMZ, dir |-> <<>>, kind |-> "zip"],
    [name |-> <<"d","/">>, dir |-> <<>>, kind |-> "dir"] }

MkNode(label, id) ==
  [name |-> label.name, dir |-> label.dir, kind |-> label.kind,
   id |-> id, kids |-> <<>>]

\* The bytes of a node.
Content(n) == [kind |-> n.kind, id |-> n.id, kids |-> n.kids]

\* Whether the last node at depth d - 1 of the rightmost branch is an
\* archive that can take one more entry.
RECURSIVE CanAppendAt(_, _)
CanAppendAt(nodes, d) ==
  /\ nodes # <<>>
  /\ nodes[Len(nodes)].kind = "zip"
  /\ (d = 1 \/ CanAppendAt(nodes[Len(nodes)].kids, d - 1))

RECURSIVE AppendAt(_, _, _)
AppendAt(nodes, d, new) ==
  IF d = 0 THEN Append(nodes, new)
  ELSE [nodes EXCEPT ![Len(nodes)].kids = AppendAt(@, d - 1, new)]

\* os.path.join(root, file)
PathJoin(root, file) == root \o <<os_sep>> \o file

DiskPath(n) == PathJoin(n.dir, n.name)

\* Two spellings of one path: on Windows both separators are accepted.
PathKey(p) == IF os_sep = "\\" THEN Replace(p, "/", "\\") ELSE p

DiskIndex(p) == {i \in 1..Len(disk) : PathKey(DiskPath(disk[i])) = PathKey(p)}

\* os.path.exists
PathExists(p) == DiskIndex(p) # {}

\* os.path.basename of an archive entry name.
RECURSIVE Basename(_)
Basename(s) ==
  LET seps == IF os_sep = "\\" THEN {"/", "\\"} ELSE {"/"}
  IN IF \E i \in 1..Len(s) : s[i] \in seps
       THEN Basename(Drop(s, CHOOSE i \in 1..Len(s) : s[i] \in seps))
       ELSE s

\* The environment creates a file under search_path.  os.walk lists the
\* files of the root directory before those of its subdirectory.
AddDiskFile(bound, labels) ==
  /\ phase = "build"
  /\ root_kind = "dir"
  /\ made < bound
  /\ \E l \in labels :
       /\ \A i \in 1..Len(disk) : DiskPath(disk[i]) # PathJoin(l.dir, l.name)
       /\ l.dir = RootDir => \A i \in 1..Len(disk) : disk[i].dir = RootDir
       /\ disk' = Append(disk, MkNode(l, made + 1))
  /\ made' = made + 1
  /\ UNCHANGED <<os_sep, root_kind, faults, phase, tampered>>
  /\ UNCHANGED <<findVars, apiVars, pkgVars, ppVars>>

\* The environment adds an entry to the archive written last at depth d.
AddEntry(bound) ==
  /\ phase = "build"
  /\ made < bound
  /\ \E d \in 1..bound, l \in EntryLabels :
       /\ CanAppendAt(disk, d)
       /\ disk' = AppendAt(disk, d, MkNode(l, made + 1))
  /\ made' = made + 1
  /\ UNCHANGED <<os_sep, root_kind, faults, phase, tampered>>
  /\ UNCHANGED <<findVars, apiVars, pkgVars, ppVars>>

\* ---------------------------------------------------------- find_files
\* file_finder.py:51
NestedPath(current_path, entry_name) == current_path \o <<":">> \o entry_name

\* A tracker that forgets: seen_filenames.add(filename) left out.
RememberNothing(filename, seen) == seen

\* file_finder.py:55-59 and 97-101: the status of a classified file and the
\* tracker afterwards.
StatusOf(filename, seen) == IF filename \in seen THEN "DUPLICADO" ELSE "UNICO"
Remember(filename, seen) == IF filename \in seen THEN seen ELSE seen \cup {filename}

\* The tracker updated before classification: every name goes in.
TrackerAfterAnyName(filename, file_details, seen) == Remember(filename, seen)

\* file_finder.py:53-59 and 95-101: the tracker after one file; it is
\* touched only under "if file_details".
TrackerAfter(filename, file_details, seen) ==
  IF file_details # None THEN Remember(filename, seen) ELSE seen

\* found_files.append moved under the else branch: duplicates are dropped.
AppendRecordUniqueOnly(found, file_details, status) ==
  IF status = "UNICO" THEN Append(found, [file_details EXCEPT !.status = status])
                      ELSE found

\* file_finder.py:60 and 102
AppendRecord(found, file_details, status) ==
  Append(found, [file_details EXCEPT !.status = status])

\* "and not file_details" left out: classified archives are opened too.
ShouldDescendAnyZip(filename, file_details) ==
  EndsWith(Lower(filename), <<".","z","i","p">>)

\* file_finder.py:63 and 105
ShouldDescend(filename, file_details) ==
  EndsWith(Lower(filename), <<".","z","i","p">>) /\ file_details = None

\* Return from every archive whose entries are exhausted.
RECURSIVE Unwind(_)
Unwind(st) ==
  IF st # <<>> /\ st[Len(st)].i > Len(st[Len(st)].entries)
    THEN Unwind(SubSeq(st, 1, Len(st) - 1))
    ELSE st

\* os.path.isdir
IsDir(kind) == kind = "dir"

\* A tracker that outlives the call: the names of the run before stay in.
InitialTrackerKept(seen) == seen

\* file_finder.py:86: seen_filenames = set()
InitialTracker(seen) == {}

\* file_finder.py:85-90: the first lines of find_files(search_path).  A path
\* that is not a directory returns the empty list at once.
FindBegin ==
  /\ phase' = IF IsDir(root_kind) /\ disk # <<>> THEN "finding" ELSE "found"
  /\ stack' = IF IsDir(root_kind)
                THEN Unwind(<<[entries |-> disk, i |-> 1, path |-> RootDir,
                               phys |-> <<>>, segs |-> <<>>]>>)
                ELSE <<>>
  /\ found_files' = <<>>
  /\ seen_filenames' = InitialTracker(seen_filenames)
  /\ UNCHANGED <<os_sep, root_kind, disk, made, faults, tampered>>
  /\ UNCHANGED <<apiVars, pkgVars, ppVars>>

\* find_files is called on search_path.
FindStart ==
  /\ phase = "build"
  /\ FindBegin
  /\ UNCHANGED <<warnings, visited, origin, run, first_found>>

\* find_files is called a second time on the same search_path, right after
\* the first call has returned.
FindAgain ==
  /\ phase = "found"
  /\ run = 1
  /\ FindBegin
  /\ run' = 2
  /\ first_found' = found_files
  /\ warnings' = <<>>
  /\ visited' = <<>>
  /\ origin' = <<>>

\* One iteration of the loop over files (file_finder.py:91-111) or over the
\* entries of the innermost open archive (file_finder.py:46-71).
FindStep ==
  /\ phase = "finding"
  /\ LET top == Len(stack)
         f == stack[top]
         e == f.entries[f.i]
         onDisk == top = 1
         filename == IF onDisk THEN e.name ELSE Basename(e.name)
         path == IF onDisk THEN PathJoin(e.dir, e.name)
                           ELSE NestedPath(f.path, e.name)
         phys == IF onDisk THEN path ELSE f.phys
         segs == IF onDisk THEN <<>> ELSE Append(f.segs, e.name)
         file_details == _analyze_filename(filename, path)
         advanced == [stack EXCEPT ![top].i = @ + 1]
         inner == [entries |-> e.kids, i |-> 1, path |-> path,
                   phys |-> phys, segs |-> segs]
     IN IF ~onDisk /\ EndsWith(e.name, <<"/">>)
          THEN \* zip_info.is_dir(): continue
               /\ stack' = Unwind(advanced)
               /\ phase' = IF stack' = <<>> THEN "found" ELSE "finding"
               /\ UNCHANGED <<found_files, seen_filenames, warnings, visited, origin>>
          ELSE /\ visited' = Append(visited, [filename |-> filename, path |-> path])
               /\ IF file_details # None
                    THEN /\ found_files' = AppendRecord(found_files, file_details,
                                               StatusOf(filename, seen_filenames))
                         /\ origin' = Append(origin,
                              [phys |-> phys, segs |-> segs, bytes |-> Content(e)])
                    ELSE UNCHANGED <<found_files, origin>>
               /\ seen_filenames' =
                    TrackerAfter(filename, file_details, seen_filenames)
               /\ IF ShouldDescend(filename, file_details)
                    THEN CASE e.kind = "zip" ->
                                /\ stack' = Unwind(Append(advanced, inner))
                                /\ phase' = IF stack' = <<>> THEN "found" ELSE "finding"
                                /\ UNCHANGED warnings
                           [] e.kind = "locked" ->
                                \* not a BadZipFile: the exception leaves find_files
                                /\ phase' = "find_raised"
                                /\ UNCHANGED <<stack, warnings>>
                           [] OTHER ->
                                /\ warnings' = Append(warnings, path)
                                /\ stack' = Unwind(advanced)
                                /\ phase' = IF stack' = <<>> THEN "found" ELSE "finding"
                    ELSE /\ stack' = Unwind(advanced)
                         /\ phase' = IF stack' = <<>> THEN "found" ELSE "finding"
                         /\ UNCHANGED warnings
  /\ UNCHANGED <<os_sep, root_kind, disk, made, faults, tampered>>
  /\ UNCHANGED <<run, first_found>>
  /\ UNCHANGED <<apiVars, pkgVars, ppVars>>

\* ------------------------------------------------------ _parse_zip_path
\* The drive-letter branch left out: the address is split at every colon.
_parse_zip_path_NoDrive(full_path) ==
  LET parts == Split(Replace(full_path, "\\", "/"), ":")
  IN [base_path |-> Replace(parts[1], "/", os_sep),
      inner_paths |-> Tail(parts)]

\* file_processor.py:7-26
_parse_zip_path(full_path) ==
  LET fp == Replace(full_path, "\\", "/")
      parts == Split(fp, ":")
  IN IF Len(parts) > 1 /\ Len(parts[1]) = 1 /\ StartsWith(parts[2], <<"/">>)
       THEN LET drive == parts[1]
                rest == LStrip(Join(Tail(parts), ":"), "/")
                rest_parts == Split(rest, ":")
            IN [base_path |-> Replace(drive \o <<":", "/">> \o rest_parts[1],
                                      "/", os_sep),
                inner_paths |-> Tail(rest_parts)]
       ELSE [base_path |-> Replace(parts[1], "/", os_sep),
             inner_paths |-> Tail(parts)]

\* ---------------------------------------------------- _extract_from_zip
\* ZipFile.read(name): the entry listed last under that name.
ZfRead(kids, name) ==
  LET hits == {i \in 1..Len(kids) : kids[i].name = name}
  IN IF hits = {} THEN [ok |-> FALSE, err |-> "KeyError"]
     ELSE [ok |-> TRUE,
           data |-> Content(kids[CHOOSE i \in hits : \A j \in hits : j <= i])]

\* file_processor.py:28-45; container is what zip_path holds.
RECURSIVE _extract_from_zip(_, _)
_extract_from_zip(container, inner_path_parts) ==
  IF container.kind = "locked" THEN [ok |-> FALSE, err |-> "PermissionError"]
  ELSE IF container.kind # "zip" THEN [ok |-> FALSE, err |-> "BadZipFile"]
  ELSE LET r == ZfRead(container.kids, inner_path_parts[1])
       IN IF Len(inner_path_parts) = 1 \/ ~r.ok THEN r
          ELSE _extract_from_zip(r.data, Tail(inner_path_parts))

\* ----------------------------------------------------- process_endpoint
\* The inverted test: an existing directory is refused.
RejectsDirectories(kind) == IsDir(kind)

\* api/main.py:35 and 64: the second operand of the validation; search_path
\* is absolute here.
Rejects(kind) == ~IsDir(kind)

\* api/main.py:34-39 and 64-68: HTTPException(status_code=400).
Reject ==
  /\ phase = "build"
  /\ Rejects(root_kind)
  /\ phase' = "rejected"
  /\ response' = "400"
  /\ UNCHANGED <<os_sep, root_kind, disk, made, faults, tampered>>
  /\ UNCHANGED <<delete_originals, files_to_package, physical_files_to_delete,
                 output_zip_path, log_filepath>>
  /\ UNCHANGED <<findVars, pkgVars, ppVars>>

\* api/main.py:41-42 and 77: the endpoint calls find_files once the path
\* has passed the validation.
EndpointFind ==
  /\ ~Rejects(root_kind)
  /\ FindStart

\* api/main.py:89
BasePathOf(path) == Split(path, ":")[1]

\* api/main.py:86
Selected(file_info) == file_info.status = "UNICO"

\* api/main.py:83-90
DeletionCandidates(all_found_files) ==
  {BasePathOf(all_found_files[i].path) : i \in 1..Len(all_found_files)}

\* Between discovery and packaging another process removes a file,
\* overwrites an archive with garbage, or empties an archive.
Tamper ==
  /\ phase = "found"
  /\ faults < MaxFaults
  /\ \E i \in 1..Len(disk) :
       /\ \/ disk' = [j \in 1..(Len(disk) - 1) |->
                        IF j < i THEN disk[j] ELSE disk[j + 1]]
          \/ /\ disk[i].kind = "zip"
             /\ disk' = [disk EXCEPT ![i].kind = "bad", ![i].kids = <<>>]
          \/ /\ disk[i].kind = "zip"
             /\ disk[i].kids # <<>>
             /\ disk' = [disk EXCEPT ![i].kids = <<>>]
       /\ tampered' = tampered \cup {DiskPath(disk[i])}
  /\ faults' = faults + 1
  /\ UNCHANGED <<os_sep, root_kind, made, phase>>
  /\ UNCHANGED <<findVars, apiVars, pkgVars, ppVars>>

\* The two early returns left out: the request always goes on to packaging.
ScanOutcomeNone(all_found_files) == ""

\* api/main.py:79-80 and 92-93: the message of the early return, "" when
\* the request goes on to packaging.
ScanOutcome(all_found_files) ==
  IF all_found_files = <<>> THEN "No files found in scan."
  ELSE IF SelectSeq(all_found_files, Selected) = <<>>
    THEN "No unique files found to package."
    ELSE ""

\* The output directories a request may name: search_path itself or a
\* directory outside it.  Both exist (api/main.py:69-73).
OutputDirs == {RootDir, OutDir}

\* api/main.py:77-115, from the return of find_files to the call of
\* create_zip_package, for a request whose output_dir is one of dirs and
\* that reads the clock at one of stamps.
Prepare(dirs, stamps) ==
  /\ phase = "found"
  /\ \E d \in BOOLEAN :
       /\ delete_originals' = d
       /\ IF ScanOutcome(found_files) = "No files found in scan."
            THEN /\ response' = ScanOutcome(found_files)
                 /\ phase' = "done"
                 /\ UNCHANGED <<files_to_package, physical_files_to_delete,
                                pending, output_zip_path, log_filepath>>
            ELSE /\ files_to_package' = SelectSeq(found_files, Selected)
                 /\ physical_files_to_delete' = DeletionCandidates(found_files)
                 /\ IF ScanOutcome(found_files) # ""
                      THEN /\ response' = ScanOutcome(found_files)
                           /\ phase' = "done"
                           /\ UNCHANGED <<pending, output_zip_path, log_filepath>>
                      ELSE /\ response' = ""
                           /\ phase' = "packaging"
                           /\ \E output_dir \in dirs, timestamp \in stamps :
                                /\ output_zip_path' =
                                     PathJoin(output_dir, ZipFilename(timestamp))
                                /\ log_filepath' =
                                     PathJoin(LogDir, LogFilename(timestamp))
                           /\ pending' = IF d THEN DeletionCandidates(found_files)
                                              ELSE {}
  /\ UNCHANGED <<os_sep, root_kind, disk, made, faults, tampered>>
  /\ UNCHANGED <<zip_state, final_zip, idx, outcomes, deleted, write_raised,
                 log_lines, log_file>>
  /\ UNCHANGED <<findVars, ppVars>>

\* --------------------------------------------------- create_zip_package
Line(tag, arg) == [tag |-> tag, arg |-> arg]

\* Whether a path lies in the directory search_path.
InSearchDir(p) == StartsWith(p, RootDir \o <<os_sep>>)

\* open(file, 'w+b') as zipfile.ZipFile(file, 'w') does it: the file is
\* created, or truncated when it exists.  Until the archive is closed the
\* file has no central directory and does not read as an archive.
Truncated(files, p) ==
  LET at == {i \in 1..Len(files) : PathKey(DiskPath(files[i])) = PathKey(p)}
      blank == [name |-> Drop(p, Len(RootDir) + 1), dir |-> RootDir,
                kind |-> "bad", id |-> 0, kids |-> <<>>]
  IN IF ~InSearchDir(p) THEN files
     ELSE IF at = {} THEN Append(files, blank)
     ELSE [i \in 1..Len(files) |-> IF i \in at THEN blank ELSE files[i]]

\* ZipFile.close(): the central directory is written; the file holds the
\* entries added, in the order of the writestr calls.
Closed(files, p, zip) ==
  [i \in 1..Len(files) |->
     IF PathKey(DiskPath(files[i])) = PathKey(p)
       THEN [files[i] EXCEPT !.kind = "zip",
               !.kids = [k \in 1..Len(zip) |->
                           [name |-> zip[k].name, dir |-> <<>>,
                            kind |-> zip[k].data.kind, id |-> zip[k].data.id,
                            kids |-> zip[k].data.kids]]]
       ELSE files[i]]

\* file_processor.py:68: zipfile.ZipFile(output_zip_path, 'w', ...).  When it
\* raises, the exception leaves create_zip_package.
PkgOpen ==
  /\ phase = "packaging"
  /\ zip_state = "none"
  /\ \/ /\ zip_state' = "open"
        /\ disk' = Truncated(disk, output_zip_path)
        /\ UNCHANGED <<phase, response, faults, write_raised>>
     \/ /\ faults < MaxFaults
        /\ faults' = faults + 1
        /\ write_raised' = TRUE
        /\ phase' = "raised"
        /\ response' = "500"
        /\ UNCHANGED <<zip_state, disk>>
  /\ UNCHANGED <<os_sep, root_kind, made, tampered>>
  /\ UNCHANGED <<delete_originals, files_to_package, physical_files_to_delete,
                 output_zip_path, log_filepath>>
  /\ UNCHANGED <<final_zip, idx, outcomes, pending, deleted, log_lines, log_file>>
  /\ UNCHANGED <<findVars, ppVars>>

\* file_processor.py:76-91: what the try block reads for one record.
ReadRecord(file_info) ==
  LET p == _parse_zip_path(file_info.path)
      at == DiskIndex(p.base_path)
      node == disk[CHOOSE i \in at : TRUE]
  IN IF p.inner_paths = <<>>
       THEN IF at = {} THEN [tag |-> "ADVERTENCIA", arg |-> p.base_path]
            ELSE IF node.kind = "locked"
              THEN [tag |-> "ERROR", arg |-> file_info.path]
              ELSE [tag |-> "AGREGADO", arg |-> file_info.filename,
                    data |-> Content(node)]
       ELSE IF at = {} THEN [tag |-> "ADVERTENCIA", arg |-> p.base_path]
            ELSE LET r == _extract_from_zip(Content(node), p.inner_paths)
                 IN IF r.ok
                      THEN [tag |-> "EXTRAIDO Y AGREGADO",
                            arg |-> file_info.filename, data |-> r.data]
                      ELSE [tag |-> "ERROR", arg |-> file_info.path]

\* writestr moved out of the branches: a failed read still adds an entry.
WrittenAlways(zip, file_info, got) ==
  Append(zip, [name |-> file_info.filename,
               data |-> IF got.tag \in {"AGREGADO", "EXTRAIDO Y AGREGADO"}
                          THEN got.data ELSE <<>>])

\* file_processor.py:81 and 88: final_zip.writestr(filename, data), reached
\* only when the read succeeded.
Written(zip, file_info, got) ==
  IF got.tag \in {"AGREGADO", "EXTRAIDO Y AGREGADO"}
    THEN Append(zip, [name |-> file_info.filename, data |-> got.data])
    ELSE zip

\* The "Procesando" line logged after the try block instead of before it.
RecordLinesOutcomeFirst(file_info, tag, arg) ==
  <<Line(tag, arg), Line("Procesando", file_info.filename)>>

\* file_processor.py:73 and 82-94: the two lines one record adds to the log.
RecordLines(file_info, tag, arg) ==
  <<Line("Procesando", file_info.filename), Line(tag, arg)>>

\* file_processor.py:69-94: one iteration of the loop over files_to_package.
\* final_zip.writestr may raise (the disk is full); the except clause logs it.
PkgRecord ==
  /\ phase = "packaging"
  /\ zip_state = "open"
  /\ idx <= Len(files_to_package)
  /\ LET file_info == files_to_package[idx]
         got == ReadRecord(file_info)
         writes == got.tag \in {"AGREGADO", "EXTRAIDO Y AGREGADO"}
     IN \/ /\ log_lines' = log_lines \o RecordLines(file_info, got.tag, got.arg)
           /\ outcomes' = Append(outcomes, got.tag)
           /\ final_zip' = Written(final_zip, file_info, got)
           /\ UNCHANGED <<faults, write_raised>>
        \/ /\ writes
           /\ faults < MaxFaults
           /\ faults' = faults + 1
           /\ write_raised' = TRUE
           /\ log_lines' = log_lines \o
                  RecordLines(file_info, "ERROR", file_info.path)
           /\ outcomes' = Append(outcomes, "ERROR")
           /\ UNCHANGED final_zip
  /\ idx' = idx + 1
  /\ UNCHANGED <<os_sep, root_kind, disk, made, tampered, phase, zip_state, pending,
                 deleted, log_file>>
  /\ UNCHANGED <<findVars, apiVars, ppVars>>

\* file_processor.py:68, 96-99: the with block ends, the archive is closed.
PkgClose ==
  /\ phase = "packaging"
  /\ zip_state = "open"
  /\ idx > Len(files_to_package)
  /\ zip_state' = "closed"
  /\ log_lines' = log_lines \o <<Line("Paquete ZIP creado", <<>>)>> \o
                    (IF pending # {} THEN <<Line("Eliminando", <<>>)>> ELSE <<>>)
  /\ disk' = Closed(disk, output_zip_path, final_zip)
  /\ UNCHANGED <<os_sep, root_kind, made, faults, tampered, phase>>
  /\ UNCHANGED <<final_zip, idx, outcomes, pending, deleted, write_raised, log_file>>
  /\ UNCHANGED <<findVars, apiVars, ppVars>>

\* The except clause left out: the first failing os.remove ends the loop.
RemainingAfterAbort(targets, file_path, removed) ==
  IF removed THEN targets \ {file_path} ELSE {}

\* file_processor.py:100-105: the targets still to be attempted after
\* file_path, whether os.remove succeeded or raised OSError.
RemainingAfter(targets, file_path, removed) == targets \ {file_path}

\* file_processor.py:100-105: one iteration over the deletion set, whose
\* iteration order is not fixed.
PkgDelete ==
  /\ phase = "packaging"
  /\ zip_state = "closed"
  /\ \E file_path \in pending :
       /\ pending' = RemainingAfter(pending, file_path, PathExists(file_path))
       /\ IF PathExists(file_path)
            THEN /\ disk' = SelectSeq(disk,
                      LAMBDA n : PathKey(DiskPath(n)) # PathKey(file_path))
                 /\ deleted' = deleted \cup {file_path}
                 /\ log_lines' = Append(log_lines, Line("ELIMINADO", file_path))
            ELSE /\ log_lines' = Append(log_lines, Line("ERROR al eliminar", file_path))
                 /\ UNCHANGED <<disk, deleted>>
  /\ UNCHANGED <<os_sep, root_kind, made, faults, tampered, phase>>
  /\ UNCHANGED <<zip_state, final_zip, idx, outcomes, write_raised, log_file>>
  /\ UNCHANGED <<findVars, apiVars, ppVars>>

\* file_processor.py:111-114: the heading of the log file.
LogHeading(path) == Line("--- Log de Proceso ---", path)

\* file_processor.py:108-118 and api/main.py:117-124.
PkgFinish ==
  /\ phase = "packaging"
  /\ zip_state = "closed"
  /\ pending = {}
  /\ log_file' = <<LogHeading(output_zip_path)>> \o log_lines
  /\ response' = "Processing complete."
  /\ phase' = "done"
  /\ UNCHANGED <<os_sep, root_kind, disk, made, faults, tampered>>
  /\ UNCHANGED <<delete_originals, files_to_package, physical_files_to_delete,
                 output_zip_path, log_filepath>>
  /\ UNCHANGED <<zip_state, final_zip, idx, outcomes, pending, deleted,
                 write_raised, log_lines>>
  /\ UNCHANGED <<findVars, ppVars>>

\* ------------------------------------------------------- specifications
\* The parser alone: _parse_zip_path applied to an arbitrary address.
AddrChars == {"C", "/", ":", "\\"}
Addresses == UNION {[1..n -> AddrChars] : n \in 0..MaxAddrLen}

ParseAddress ==
  /\ phase = "parse"
  /\ pp_out' = _parse_zip_path(pp_in)
  /\ phase' = "parsed"
  /\ UNCHANGED <<os_sep, root_kind, disk, made, faults, tampered, pp_in>>
  /\ UNCHANGED <<an_name, an_out>>
  /\ UNCHANGED <<findVars, apiVars, pkgVars>>

\* The classifier alone: _analyze_filename applied to a name.  The names
\* are built from these pieces.
Ruc == <<"2","0","1","2","3","4","5","6","7","8","9">>
Stamp14 == <<"2","0","2","4","0","1","0","1","1","2","0","0","0","0">>
Num13 == <<"1","2","3","4","5","6","7","8","9","0","1","2","3">>
Num20 == <<"1","2","3","4","5","6","7","8","9","0","1","2","3","4","5","6","7","8","9","0">>
Id9 == <<"1","2","3","4","5","6","7","8","9">>
Serie == <<"F","0","0","1">>
Underscore == <<"_">>

\* Names of invoices and the like: an optional RUC, a document type code,
\* a series, a number of 0, 1, 8 or 9 digits, and an extension.
VoucherNames ==
  {pre \o code \o <<"-">> \o Serie \o <<"-">> \o corr \o <<".">> \o ext :
     pre \in {<<>>, Ruc \o <<"-">>},
     code \in {<<"0","1">>, <<"0","3">>, <<"0","7">>, <<"0","8">>, <<"0","9">>, <<"R","H","E">>, <<"r","h","e">>, <<"0","2">>},
     corr \in {<<>>, <<"7">>, Take(Num13, 8), Take(Num13, 9)},
     ext \in {<<"x","m","l">>, <<"z","i","p">>, <<"p","d","f">>, <<"P","D","F">>, <<"t","x","t">>, <<"x","m","l","\n">>, <<"x","m","l","x">>}}

\* One name for each of the other registry entries, each also with its
\* last character cut off and with its last three characters made PDF.
ReportNames ==
  LET good ==
        {Ruc \o <<"_","P","L","A","M","E","_">> \o Take(Stamp14, 8) \o <<".","z","i","p">>,
         <<"D","e","t","a","l","l","e","D","e","c","l","a","r","a","c","i","o","n","e","s","_">> \o Ruc \o Underscore \o Stamp14 \o <<".","x","l","s","x">>,
         <<"r","e","p","o","r","t","e","e","c","_","f","i","c","h","a","r","u","c","_">> \o Ruc \o Underscore \o Stamp14 \o <<".","p","d","f">>,
         <<"r","i","d","e","t","r","a","c","_">> \o Ruc \o Underscore \o Num13 \o Underscore \o Stamp14
            \o Underscore \o Id9 \o <<".","p","d","f">>,
         <<"r","i","l","f","_">> \o Ruc \o Underscore \o Num13 \o Underscore \o Stamp14
            \o Underscore \o Id9 \o <<".","p","d","f">>,
         <<"r","m","g","e","n","_">> \o Ruc \o <<"_","1","2","3","-","4","5","6","-","1","2","3","4","5","6","7","_">> \o Stamp14
            \o Underscore \o Id9 \o <<".","p","d","f">>,
         <<"c","o","n","s","t","a","n","c","i","a","_">> \o Stamp14 \o Underscore \o Num20 \o Underscore \o Num13
            \o Underscore \o Id9 \o <<".","p","d","f">>,
         <<"r","v","a","l","o","r","e","s","_">> \o Ruc \o Underscore \o Take(Num13, 8) \o Serie
            \o Underscore \o Stamp14 \o Underscore \o Id9 \o <<".","p","d","f">>,
         <<"r","e","c","g","e","n","_">> \o Ruc \o Underscore \o Num13 \o Underscore \o Stamp14
            \o Underscore \o Id9 \o <<".","p","d","f">>,
         <<"b","o","d","_">> \o Take(Id9, 6) \o Underscore \o Ruc \o Underscore
            \o Take(Stamp14, 4) \o <<".","p","d","f">>}
  IN good \cup {Take(n, Len(n) - 1) : n \in good}
          \cup {Take(n, Len(n) - 3) \o <<"P","D","F">> : n \in good}

ClassifyNames == VoucherNames \cup ReportNames \cup KnownNames

Classify ==
  /\ phase = "classify"
  /\ an_out' = _analyze_filename(an_name, PathJoin(RootDir, an_name))
  /\ phase' = "classified"
  /\ UNCHANGED <<os_sep, root_kind, disk, made, faults, tampered>>
  /\ UNCHANGED <<pp_in, pp_out, an_name>>
  /\ UNCHANGED <<findVars, apiVars, pkgVars>>

Idle ==
  /\ os_sep \in {"/", "\\"}
  /\ disk = <<>>
  /\ made = 0
  /\ faults = 0
  /\ stack = <<>>
  /\ found_files = <<>>
  /\ seen_filenames = {}
  /\ warnings = <<>>
  /\ visited = <<>>
  /\ origin = <<>>
  /\ run = 1
  /\ first_found = <<>>
  /\ delete_originals = FALSE
  /\ files_to_package = <<>>
  /\ physical_files_to_delete = {}
  /\ output_zip_path = <<>>
  /\ log_filepath = <<>>
  /\ response = ""
  /\ zip_state = "none"
  /\ final_zip = <<>>
  /\ idx = 1
  /\ outcomes = <<>>
  /\ pending = {}
  /\ deleted = {}
  /\ tampered = {}
  /\ write_raised = FALSE
  /\ log_lines = <<>>
  /\ log_file = <<>>
  /\ pp_out = [base_path |-> <<>>, inner_paths |-> <<>>]
  /\ an_out = None

Init ==
  /\ Idle
  /\ root_kind \in {"dir", "file", "missing"}
  /\ phase = "build"
  /\ pp_in = <<>>
  /\ an_name = <<>>

InitParse ==
  /\ Idle
  /\ root_kind = "dir"
  /\ phase = "parse"
  /\ pp_in \in Addresses
  /\ an_name = <<>>

InitClassify ==
  /\ Idle
  /\ root_kind = "dir"
  /\ phase = "classify"
  /\ pp_in = <<>>
  /\ an_name \in ClassifyNames

\* A whole process request.
Next ==
  \/ AddDiskFile(MaxPackNodes, DiskLabels)
  \/ AddEntry(MaxPackNodes)
  \/ Reject
  \/ EndpointFind
  \/ FindStep
  \/ Tamper
  \/ Prepare({OutDir}, {LaterStamp})
  \/ PkgOpen
  \/ PkgRecord
  \/ PkgClose
  \/ PkgDelete
  \/ PkgFinish

\* A process request that may write into search_path, where an earlier
\* request may have left its archive, in the same second or a later one.
NextOut ==
  \/ AddDiskFile(MaxOutNodes, DiskLabelsWithOutput)
  \/ AddEntry(MaxOutNodes)
  \/ Reject
  \/ EndpointFind
  \/ FindStep
  \/ Tamper
  \/ Prepare(OutputDirs, Timestamps)
  \/ PkgOpen
  \/ PkgRecord
  \/ PkgClose
  \/ PkgDelete
  \/ PkgFinish

\* A discovery run, and a second one on the same tree.
NextFind ==
  \/ AddDiskFile(MaxNodes, DiskLabels)
  \/ AddEntry(MaxNodes)
  \/ Reject
  \/ FindStart
  \/ FindStep
  \/ FindAgain

Spec == Init /\ [][Next]_vars

SpecOut == Init /\ [][NextOut]_vars

SpecFind == Init /\ [][NextFind]_vars

SpecParse == InitParse /\ [][ParseAddress]_vars

SpecClassify == InitClassify /\ [][Classify]_vars

\* ------------------------------------------------ properties: discovery
\* Whether some registry pattern matches the bare name.
MatchesAny(name) ==
  \E k \in 1..Len(PATRONES_ESTRUCTURADOS) :
     Matches(PATRONES_ESTRUCTURADOS[k].pattern, name, <<>>) # <<>>
MatchedNames == {n \in KnownNames : MatchesAny(n)}
IsMatched(name) == IF name \in KnownNames THEN name \in MatchedNames
                                          ELSE MatchesAny(name)

IsZipName(name) == EndsWith(Lower(name), <<".","z","i","p">>)

\* What a walk of the tree has to classify, in traversal order, read off the
\* tree itself: every file on disk, and every non-directory entry of every
\* readable archive that is reached through unmatched .zip names only.
\* warn marks an unmatched .zip that cannot be read as an archive.
RECURSIVE WalkRef(_, _, _)
WalkRef(nodes, cur, onDisk) ==
  IF nodes = <<>> THEN <<>>
  ELSE LET e == Head(nodes)
           path == IF onDisk THEN e.dir \o <<os_sep>> \o e.name
                             ELSE cur \o <<":">> \o e.name
           filename == IF onDisk THEN e.name ELSE Basename(e.name)
           isDir == ~onDisk /\ e.name[Len(e.name)] = "/"
           opens == ~isDir /\ IsZipName(filename) /\ ~IsMatched(filename)
       IN (IF isDir THEN <<>>
           ELSE <<[filename |-> filename, path |-> path,
                   warn |-> opens /\ e.kind # "zip"]>>)
          \o (IF opens /\ e.kind = "zip" THEN WalkRef(e.kids, path, FALSE)
                                         ELSE <<>>)
          \o WalkRef(Tail(nodes), cur, onDisk)

Expected == WalkRef(disk, RootDir, TRUE)

NameAndPath(s) == [i \in 1..Len(s) |->
                     [filename |-> s[i].filename, path |-> s[i].path]]

\* C1: in the list find_files returns, the first record of each bare filename
\* is UNICO and every later record of that filename is DUPLICADO, wherever
\* the files lie; so exactly one record per bare filename is UNICO.
C1_FirstUniqueRestDuplicate ==
  /\ \A i \in 1..Len(found_files) :
       found_files[i].status =
         IF \E j \in 1..(i - 1) : found_files[j].filename = found_files[i].filename
           THEN "DUPLICADO" ELSE "UNICO"
  /\ \A i \in 1..Len(found_files) :
       Cardinality({j \in 1..Len(found_files) :
                      /\ found_files[j].filename = found_files[i].filename
                      /\ found_files[j].status = "UNICO"}) = 1

\* A finished run that met one bare filename on disk and again two archives
\* deep.
C1_Witness ==
  /\ phase = "found"
  /\ \E i, j \in 1..Len(found_files) :
       /\ i < j
       /\ found_files[i].filename = found_files[j].filename
       /\ origin[i].segs = <<>>
       /\ Len(origin[j].segs) >= 2

\* C7: find_files returns exactly one record for every entry it visits whose
\* bare name matches a registry pattern and none for any other entry; a
\* directory of N matching files and nothing else yields N records.
C7_OneRecordPerMatchingEntry ==
  phase = "found" =>
    /\ NameAndPath(found_files) =
         SelectSeq(visited, LAMBDA v : IsMatched(v.filename))
    /\ (\A i \in 1..Len(disk) : IsMatched(disk[i].name)) =>
         Len(found_files) = Len(disk)

\* A finished run over matching and non-matching files, on disk and in an
\* archive, two of the matching ones under one name.
C7_Witness ==
  /\ phase = "found"
  /\ \E i \in 1..Len(visited) : ~IsMatched(visited[i].filename)
  /\ \E i, j \in 1..Len(found_files) :
       /\ i # j
       /\ found_files[i].filename = found_files[j].filename
       /\ origin[i].segs # origin[j].segs

\* C8: the walker opens a .zip exactly when no pattern classified its bare
\* name: every non-directory entry of a readable unmatched .zip is visited,
\* nothing else is, and no record lies inside an archive whose own name
\* matched a pattern.
C8_DescendsIffUnmatched ==
  phase = "found" =>
    /\ visited = NameAndPath(Expected)
    /\ \A i \in 1..Len(found_files) :
         origin[i].segs # <<>> =>
           /\ ~IsMatched(Basename(origin[i].phys))
           /\ \A k \in 1..(Len(origin[i].segs) - 1) :
                ~IsMatched(Basename(origin[i].segs[k]))

\* A finished run over a matched archive that holds entries and an unmatched
\* archive whose entry was recorded.
C8_Witness ==
  /\ phase = "found"
  /\ \E i \in 1..Len(disk) : IsMatched(disk[i].name) /\ disk[i].kids # <<>>
  /\ \E i \in 1..Len(found_files) : origin[i].segs # <<>>

\* C6: an unreadable or corrupt archive, at any depth, never aborts
\* find_files: the run ends, a warning names the archive, nothing inside it is
\* recorded and every other valid record is returned.
C6_BadArchiveNeverAborts ==
  /\ phase # "find_raised"
  /\ phase = "found" =>
       /\ Len(warnings) = Len(SelectSeq(Expected, LAMBDA v : v.warn))
       /\ \A i \in 1..Len(warnings) :
            warnings[i] = SelectSeq(Expected, LAMBDA v : v.warn)[i].path
       /\ NameAndPath(found_files) =
            SelectSeq(NameAndPath(Expected), LAMBDA v : IsMatched(v.filename))

\* C9: _parse_zip_path applied to the address of any record gives back the
\* path of the file the walker opened on disk and the entry names it
\* appended, innermost last; none for a file found on disk.
C9_AddressResolves ==
  \A i \in 1..Len(found_files) :
     LET p == _parse_zip_path(found_files[i].path)
     IN /\ p.base_path = origin[i].phys
        /\ p.inner_paths = origin[i].segs

\* ------------------------------------------------ properties: packaging
\* Positions in found_files of the records handed to create_zip_package.
UniqueIdx ==
  SelectSeq([i \in 1..Len(found_files) |-> i],
            LAMBDA i : found_files[i].status = "UNICO")

\* C2: create_zip_package removes no deletion target before every record
\* has been processed and the output archive closed, and removes none at
\* all when creating or writing the output archive raised.
C2_DeletionOnlyAfterArchiveWritten ==
  /\ deleted # {} => zip_state = "closed" /\ idx > Len(files_to_package)
  /\ write_raised => deleted = {}

\* C3: with deletion of originals requested, every path of the deletion set
\* is the physical base file of some record selected for packaging.
C3_DeletesOnlyPackagedBases ==
  (phase \in {"packaging", "done"} /\ delete_originals) =>
    \A p \in pending \cup deleted :
       \E k \in 1..Len(UniqueIdx) : origin[UniqueIdx[k]].phys = p

\* C4: when nothing changed on disk and no write failed, the closed output
\* archive holds, for every packaged record found up to three archives deep,
\* an entry named by the bare filename with the bytes of the source.
C4_RoundTrip ==
  (zip_state = "closed" /\ tampered = {} /\ ~write_raised) =>
    \A k \in 1..Len(files_to_package) :
       Len(origin[UniqueIdx[k]].segs) <= 3 =>
         \E e \in 1..Len(final_zip) :
            /\ final_zip[e].name = files_to_package[k].filename
            /\ final_zip[e].data = origin[UniqueIdx[k]].bytes

HasEntry(name) == \E e \in 1..Len(final_zip) : final_zip[e].name = name

\* C5: records that fail one by one (file missing on disk, container not a
\* readable archive, segment absent) never make create_zip_package raise:
\* each adds a warning or error line and no entry, every other record is
\* written, and every record is processed before the archive is closed.
C5_RecordFailuresContained ==
  /\ phase = "raised" => outcomes = <<>>
  /\ zip_state = "closed" => Len(outcomes) = Len(files_to_package)
  /\ \A k \in 1..Len(outcomes) :
       LET r == files_to_package[k]
       IN /\ log_lines[2 * k - 1] = Line("Procesando", r.filename)
          /\ log_lines[2 * k].tag = outcomes[k]
          /\ IF outcomes[k] \in {"ADVERTENCIA", "ERROR"}
               THEN ~HasEntry(r.filename)
               ELSE /\ outcomes[k] \in {"AGREGADO", "EXTRAIDO Y AGREGADO"}
                    /\ HasEntry(r.filename)
  /\ zip_state = "open" =>
       \A k \in 1..Len(outcomes) :
          ~PathExists(_parse_zip_path(files_to_package[k].path).base_path)
             => outcomes[k] = "ADVERTENCIA"

\* A request that completed although one record ended in a logged error,
\* with another record written to the archive.
C5_Witness ==
  /\ phase = "done"
  /\ response = "Processing complete."
  /\ \E k \in 1..Len(outcomes) : outcomes[k] = "ERROR"
  /\ \E k \in 1..Len(outcomes) : outcomes[k] \in {"AGREGADO", "EXTRAIDO Y AGREGADO"}

\* --------------------------------------------------- properties: parser
Colons(s) == Cardinality({i \in 1..Len(s) : s[i] = ":"})

\* The address with every backslash read as a slash.
Slashed(s) == [i \in 1..Len(s) |-> IF s[i] = "\\" THEN "/" ELSE s[i]]

\* C10 as stated: the first colon belongs to the physical path when it
\* follows a single letter and a path separator follows it; every other
\* colon is a nesting boundary; an address without colon is the physical
\* path, whole, with no segment.
C10_DrivePrefixIsLetter ==
  phase = "parsed" =>
    LET n == Slashed(pp_in)
        prefix == Len(n) >= 3 /\ IsAlpha(n[1]) /\ n[2] = ":" /\ n[3] = "/"
    IN /\ prefix => /\ Len(pp_out.inner_paths) = Colons(n) - 1
                    /\ Colons(pp_out.base_path) = 1
       /\ ~prefix => /\ Len(pp_out.inner_paths) = Colons(n)
                     /\ Colons(pp_out.base_path) = 0
       /\ Colons(n) = 0 => /\ pp_out.base_path = pp_in
                           /\ pp_out.inner_paths = <<>>

\* C10 as amended: the first colon belongs to the physical path when it
\* follows a single character, letter or not, and a path separator follows
\* it; every other colon is a nesting boundary; the physical path is returned
\* with its separators turned into os.sep (and the separators after a drive
\* prefix reduced to one), the segments are returned as they are.
C10_DrivePrefixIsOneChar ==
  phase = "parsed" =>
    LET n == Slashed(pp_in)
        prefix == Len(n) >= 3 /\ n[1] # ":" /\ n[2] = ":" /\ n[3] = "/"
        base == pp_out.base_path
        inner == pp_out.inner_paths
    IN /\ \A k \in 1..Len(inner) : Colons(inner[k]) = 0
       /\ \A i \in 1..Len(base) : base[i] \in {"/", "\\"} => base[i] = os_sep
       /\ prefix =>
            /\ Len(inner) = Colons(n) - 1
            /\ Colons(base) = 1
            /\ SubSeq(Slashed(base), 1, 3) = SubSeq(n, 1, 3)
            /\ Join(<<SubSeq(Slashed(base), 4, Len(base))>> \o inner, ":")
                 = LStrip(SubSeq(n, 3, Len(n)), "/")
       /\ ~prefix =>
            /\ Len(inner) = Colons(n)
            /\ Colons(base) = 0
            /\ Join(<<Slashed(base)>> \o inner, ":") = n
       /\ Colons(n) = 0 => inner = <<>>

\* An address with a drive prefix and a nesting segment has been parsed.
C10_Witness ==
  /\ phase = "parsed"
  /\ Len(pp_in) >= 3 /\ pp_in[1] = "C" /\ pp_in[2] = ":" /\ pp_in[3] \in {"/", "\\"}
  /\ pp_out.inner_paths # <<>>

C12_NothingToPackageNothingWritten ==
  (phase \in {"packaging", "raised", "done"}
     /\ SelectSeq(found_files, Selected) = <<>>)
    => /\ phase = "done"
       /\ response \in {"No files found in scan.",
                        "No unique files found to package."}
       /\ zip_state = "none"
       /\ output_zip_path = <<>>
       /\ \A i \in 1..Len(disk) : ~IsZipName(disk[i].name) \/ disk[i].id # 0
       /\ log_filepath = <<>>
       /\ log_file = <<>>
       /\ deleted = {}

C12_Witness ==
  /\ phase = "done"
  /\ disk # <<>>
  /\ SelectSeq(found_files, Selected) = <<>>
  /\ response = "No files found in scan."

\* api/main.py:112: the deletion set handed to create_zip_package.
FilesForDeletion ==
  IF delete_originals THEN physical_files_to_delete ELSE {}

\* C13: in every process request, also one that writes into search_path
\* after an earlier request has left its archive there, the path of the
\* archive being written is not in the deletion set and is not removed.
C13_OutputArchiveNeverDeleted ==
  phase \in {"packaging", "done"}
    => /\ output_zip_path \notin FilesForDeletion
       /\ output_zip_path \notin deleted

\* ----------------------------------------- properties: the deletion step
DeletionTags == {"ELIMINADO", "ERROR al eliminar"}

\* The positions of the log lines written for the deletion of p.
DeletionLines(p) ==
  {i \in 1..Len(log_lines) :
     log_lines[i].tag \in DeletionTags /\ log_lines[i].arg = p}

\* C14: once the archive is closed the call no longer fails; every path of
\* the deletion set is attempted, whatever happened to the paths before
\* it, and each attempt leaves exactly one log line for its path: ELIMINADO
\* when the file was removed, ERROR al eliminar when os.remove failed.
C14_DeletionFailureContained ==
  zip_state = "closed"
    => /\ phase \in {"packaging", "done"}
       /\ pending \subseteq FilesForDeletion
       /\ phase = "done" => pending = {}
       /\ \A p \in FilesForDeletion \ pending :
            /\ Cardinality(DeletionLines(p)) = 1
            /\ \A i \in DeletionLines(p) :
                 log_lines[i].tag = "ELIMINADO" <=> p \in deleted

\* A failed deletion followed by a successful one, in a call that returned.
C14_Witness ==
  /\ phase = "done"
  /\ response = "Processing complete."
  /\ \E i, j \in 1..Len(log_lines) :
       /\ i < j
       /\ log_lines[i].tag = "ERROR al eliminar"
       /\ log_lines[j].tag = "ELIMINADO"

\* ------------------------------------------- properties: the classifier
\* The registry entries whose pattern matches the name.
Hits(name) ==
  {k \in 1..Len(PATRONES_ESTRUCTURADOS) :
     Matches(PATRONES_ESTRUCTURADOS[k].pattern, name, <<>>) # <<>>}

\* The name without the newline that may end it.
Chomp(name) ==
  IF name # <<>> /\ name[Len(name)] = "\n" THEN Take(name, Len(name) - 1)
                                             ELSE name

\* C15: _analyze_filename returns no record when no pattern matches the
\* name; otherwise its record carries the doc_type of the first registry
\* entry, in registry order, whose pattern matches, and that entry's field
\* names paired in order with the groups the pattern captured, one group
\* per field name, the last one being ext with the name's extension.
C15_FirstMatchingEntryClassifies ==
  phase = "classified"
    => IF Hits(an_name) = {}
         THEN an_out = None
         ELSE LET k == CHOOSE h \in Hits(an_name) : \A g \in Hits(an_name) : h <= g
                  e == PATRONES_ESTRUCTURADOS[k]
                  groups == Matches(e.pattern, an_name, <<>>)[1]
                  n == Len(e.fields)
              IN /\ an_out.classification = e.doc_type
                 /\ an_out.filename = an_name
                 /\ Len(groups) = n
                 /\ Len(an_out.fields) = n
                 /\ \A i \in 1..n : an_out.fields[i] = <<e.fields[i], groups[i]>>
                 /\ \A i, j \in 1..n : e.fields[i] = e.fields[j] => i = j
                 /\ \A i \in 1..n :
                      e.fields[i] \notin {"classification", "filename", "path"}
                 /\ an_out.fields[n][1] = "ext"
                 /\ EndsWith(Chomp(an_name), <<".">> \o an_out.fields[n][2])

\* A name classified by the last entry of the registry, with the optional
\* RUC in front.
C15_Witness ==
  /\ phase = "classified"
  /\ an_out # None
  /\ an_out.classification = "recibo_honorarios"
  /\ Len(an_name) > 20

\* ------------------------------------------ properties: repeated discovery
IsPrefix(s, t) == Len(s) <= Len(t) /\ s = SubSeq(t, 1, Len(s))

\* C16: a second find_files run on the unchanged tree, visiting it in the
\* same order, builds the same sequence of records as the first, record by
\* record (classification, filename, address, fields and status), and
\* returns as the first did.
C16_SecondRunSameRecords ==
  run = 2
    => /\ phase \in {"finding", "found"}
       /\ IsPrefix(found_files, first_found)
       /\ phase = "found" => found_files = first_found

\* A second run that has returned records of both statuses.
C16_Witness ==
  /\ run = 2
  /\ phase = "found"
  /\ \E i, j \in 1..Len(found_files) :
       /\ found_files[i].status = "UNICO"
       /\ found_files[j].status = "DUPLICADO"

\* ------------------------------------- properties: deletion and outcomes
AddedTags == {"AGREGADO", "EXTRAIDO Y AGREGADO"}

\* C17: a physical file is removed only if every record handed to
\* create_zip_package that was read from that file, or from an archive
\* inside it, was added to the output archive.
C17_DeletedOnlyIfEveryRecordAdded ==
  \A p \in deleted :
     \A k \in 1..Len(files_to_package) :
        origin[UniqueIdx[k]].phys = p
          => k <= Len(outcomes) /\ outcomes[k] \in AddedTags

\* ---------------------------------------------- properties: the tracker
\* C18: in every state of a discovery run the tracker holds exactly the
\* bare filenames of the records appended so far; a name that no pattern
\* matches, the name of an unreadable or unmatched archive included, is
\* never in it.
C18_TrackerIsRecordedNames ==
  /\ seen_filenames = {found_files[i].filename : i \in 1..Len(found_files)}
  /\ \A i \in 1..Len(visited) :
       ~IsMatched(visited[i].filename) => visited[i].filename \notin seen_filenames

\* A run that has recorded a file and has met an unmatched archive that
\* cannot be read and a file that no pattern matches.
C18_Witness ==
  /\ phase \in {"finding", "found"}
  /\ found_files # <<>>
  /\ warnings # <<>>
  /\ \E i \in 1..Len(visited) : visited[i].filename = NameN

\* ------------------------------------ properties: the two address readers
\* C19: for every record that discovery returns, the path process_endpoint
\* puts into the deletion set (the text before the first colon of the
\* address) is the physical path _parse_zip_path returns for that address,
\* also when the physical path starts with a drive letter and a colon.
C19_DeletionPathIsParsedPath ==
  \A i \in 1..Len(found_files) :
     BasePathOf(found_files[i].path) = _parse_zip_path(found_files[i].path).base_path

\* --------------------------------------------------- properties: the log
OutcomeTags == AddedTags \cup {"ADVERTENCIA", "ERROR"}

\* C20: the log lists what happened in the order it happened.  For the k-th
\* record handed in, lines 2k-1 and 2k are its "Procesando" line and its one
\* outcome line; nothing else is logged while the archive is open.  When the
\* archive is closed every record has its two lines and the next line is
\* "Paquete ZIP creado"; with an empty deletion set that is the last line,
\* otherwise the deletion heading follows and then one line (ELIMINADO or
\* ERROR al eliminar) per target attempted so far, each target once.  The
\* log file is written only when nothing is left to delete, and holds the
\* whole log under its heading.
C20_LogFollowsTheActions ==
  LET n == Len(outcomes)
      attempted == FilesForDeletion \ pending
  IN /\ \A k \in 1..n :
          /\ log_lines[2 * k - 1] = Line("Procesando", files_to_package[k].filename)
          /\ log_lines[2 * k].tag = outcomes[k]
          /\ outcomes[k] \in OutcomeTags
     /\ zip_state # "closed" => Len(log_lines) = 2 * n
     /\ zip_state = "closed" =>
          /\ n = Len(files_to_package)
          /\ log_lines[2 * n + 1] = Line("Paquete ZIP creado", <<>>)
          /\ IF FilesForDeletion = {}
               THEN Len(log_lines) = 2 * n + 1
               ELSE /\ log_lines[2 * n + 2] = Line("Eliminando", <<>>)
                    /\ Len(log_lines) = 2 * n + 2 + Cardinality(attempted)
                    /\ \A i \in (2 * n + 3)..Len(log_lines) :
                         /\ log_lines[i].tag \in DeletionTags
                         /\ log_lines[i].arg \in attempted
                    /\ \A i, j \in (2 * n + 3)..Len(log_lines) :
                         log_lines[i].arg = log_lines[j].arg => i = j
     /\ log_file # <<>> =>
          /\ phase = "done"
          /\ zip_state = "closed"
          /\ pending = {}
          /\ log_file = <<LogHeading(output_zip_path)>> \o log_lines
     /\ (phase = "done" /\ response = "Processing complete.") => log_file # <<>>

\* A finished request with two records processed and two deletions
\* attempted, one of which failed.
C20_Witness ==
  /\ phase = "done"
  /\ log_file # <<>>
  /\ Len(outcomes) >= 2
  /\ deleted # {}
  /\ \E i \in 1..Len(log_lines) : log_lines[i].tag = "ERROR al eliminar"

=============================================================================
